---- MODULE Spec2Model ----
(***************************************************************************)
(* Model of src/webserver/ph7.c (Pi-hole FTL): the glue between the        *)
(* civetweb HTTP server and the PH7 engine.  ph7_handler is modelled one   *)
(* engine/server call per step so that overlapping invocations can be      *)
(* interleaved; init_ph7 and ph7_terminate are single steps.               *)
(***************************************************************************)
EXTENDS Integers, Sequences, FiniteSets, TLC

(* ------------------------------ bounds -------------------------------- *)
\* Number of ph7_handler invocations started in one behaviour.
MaxRequests == 2

\* Host threads on which civetweb may call ph7_handler.
Threads == {"t1", "t2"}

(* ------------------------- C strings and buffers ---------------------- *)
NUL == "\\0"
\* Content of memory that was never written (a VLA on the stack).
GARBAGE == "?"

\* httpsettings.webroot / httpsettings.webhome values tried.
Webroots == { <<"/", "w">>, <<"r">> }
Webhomes == { <<"/", "a">>, <<"h">> }
\* req_info->local_uri values tried (always starts with '/').
Uris == { <<"/", "x">>, <<"/", "d", "/", "y">> }
\* FTLfiles.log
FTLfiles_log == <<"/", "l", "o", "g">>

Fill(n, c) == [k \in 1..n |-> c]

RECURSIVE CStr(_)
\* The C string held by a buffer: the bytes before the first NUL.
CStr(buf) ==
    IF buf = <<>> \/ Head(buf) = NUL THEN <<>>
    ELSE <<Head(buf)>> \o CStr(Tail(buf))

strlen(buf) == Len(CStr(buf))

\* A pointer to a char buffer: st is "null", "alloc" or "freed"; buf is the
\* allocated bytes; oob records whether a write fell outside them.
Mem(buf) == [st |-> "alloc", buf |-> buf, oob |-> FALSE]
NullMem == [st |-> "null", buf |-> <<>>, oob |-> FALSE]
FreedMem == [st |-> "freed", buf |-> <<>>, oob |-> FALSE]

\* m.buf[idx] = c with idx counted from 0 as in C.
Poke(m, idx, c) ==
    IF idx >= 0 /\ idx < Len(m.buf)
    THEN [m EXCEPT !.buf = [@ EXCEPT ![idx + 1] = c]]
    ELSE [m EXCEPT !.oob = TRUE]

RECURSIVE PokeAll(_, _, _)
\* Write the bytes of s at offsets off, off+1, ...
PokeAll(m, off, s) ==
    IF s = <<>> THEN m
    ELSE PokeAll(Poke(m, off, Head(s)), off + 1, Tail(s))

\* strcpy(m.buf + off, src): the characters of src and the terminating NUL.
strcpy(m, off, src) == PokeAll(m, off, src \o <<NUL>>)

\* strncpy(m.buf + off, src, n) for n <= strlen(src): n characters, no NUL.
strncpy(m, off, src, n) == PokeAll(m, off, SubSeq(src, 1, n))

\* calloc(n, sizeof(char)): n zero bytes.
calloc(n) == Mem(Fill(n, NUL))

(* ------------------------------ PH7 codes ----------------------------- *)
PH7_OK == "PH7_OK"
PH7_IO_ERR == "PH7_IO_ERR"
PH7_VM_ERR == "PH7_VM_ERR"
PH7_COMPILE_ERR == "PH7_COMPILE_ERR"
PH7_NOMEM == "PH7_NOMEM"
PH7_ABORT == "PH7_ABORT"
PH7_CORRUPT == "PH7_CORRUPT"

\* Codes ph7_compile_file can fail with.
CompileFailCodes == {PH7_IO_ERR, PH7_VM_ERR, PH7_COMPILE_ERR, PH7_NOMEM}
\* Engine error-log texts (zErrLog); <<>> is the empty log (niLen = 0).
ErrLogs == { <<>>, <<"E", "1">> }
\* Captured output of a script.
Outputs == { <<>>, <<"H", "e", "l", "l", "o">> }
\* A script file that compiles: how its execution ends and what it prints.
Scripts == [exec : {PH7_OK, PH7_ABORT}, out : Outputs]
NoScript == [exec |-> PH7_ABORT, out |-> <<>>]

\* Native-function table of ph7_ext/extensions.h (names only).
aFunc == <<"gethostname", "pihole_func">>

NULL == 0
Handles == 1..MaxRequests

(* -------------------------------- state ------------------------------- *)
VARIABLES
    phase,      \* "boot" (before init_ph7), "running", "terminated", "crashed"
    webroot,    \* httpsettings.webroot
    webhome,    \* httpsettings.webhome
    config_debug,   \* config.debug & DEBUG_API
    pEngine,    \* "NULL", "engine" or "released"
    xErr,       \* the engine's error consumer: "none" or "PH7_error_report"
    webroot_with_home,              \* a Mem record
    webroot_with_home_and_scripts,  \* a Mem record
    pVm,        \* the module-level handle: NULL or a handle id
    vm,         \* handle id -> state of the compiled program
    errLog,     \* the engine's internal error log
    nreq,       \* handler invocations started so far
    pc, rc, i, full_path, conn, ret, inp, ops, lg, rid,
    pOut,       \* pOut and nLen of line 148: the handle read and its bytes
    used        \* the handles the invocation has passed to the engine

shared == <<phase, webroot, webhome, config_debug, pEngine, xErr,
            webroot_with_home,
            webroot_with_home_and_scripts>>
engine == <<pVm, vm, errLog>>
locals == <<pc, rc, i, full_path, conn, ret, inp, ops, lg, rid, pOut, used>>
vars == <<shared, engine, nreq, locals>>

NoInput == [uri |-> <<>>, crc |-> "none", errlog |-> <<>>,
            script |-> NoScript, reg |-> <<>>, xrc |-> "none"]
\* const void *pOut = NULL; unsigned int nLen = 0u;
NoOut == [h |-> NULL, bytes |-> <<>>]
NoVm == [st |-> "none", script |-> NoScript, out |-> <<>>, nexec |-> 0,
         nreset |-> 0, nrel |-> 0]

\* State before init_ph7, under the configuration (root, home, debug).
InitWith(roots, homes, debugs) ==
    /\ phase = "boot"
    /\ webroot \in roots
    /\ webhome \in homes
    /\ config_debug \in debugs
    /\ pEngine = "NULL"
    /\ xErr = "none"
    /\ webroot_with_home = NullMem
    /\ webroot_with_home_and_scripts = NullMem
    /\ pVm = NULL
    /\ vm = [h \in Handles |-> NoVm]
    /\ errLog = <<>>
    /\ nreq = 0
    /\ pc = [t \in Threads |-> "idle"]
    /\ rc = [t \in Threads |-> PH7_OK]
    /\ i = [t \in Threads |-> 0]
    /\ full_path = [t \in Threads |-> NullMem]
    /\ conn = [t \in Threads |-> <<>>]
    /\ ret = [t \in Threads |-> -1]
    /\ inp = [t \in Threads |-> NoInput]
    /\ ops = [t \in Threads |-> <<>>]
    /\ lg = [t \in Threads |-> <<>>]
    /\ rid = [t \in Threads |-> 0]
    /\ pOut = [t \in Threads |-> NoOut]
    /\ used = [t \in Threads |-> {}]

\* One web root and home, with and without API debugging.
Init == InitWith({<<"/", "w">>}, {<<"/", "a">>}, BOOLEAN)

\* Every web root and home.
InitPaths == InitWith(Webroots, Webhomes, {FALSE})

\* One configuration is enough to interleave invocations.
InitConc == InitWith({<<"/", "w">>}, {<<"/", "a">>}, {FALSE})

(* ------------------------------ lifecycle ----------------------------- *)
scripts_dir == <<"/", "s", "c", "r", "i", "p", "t", "s", "/", "p", "i", "-",
                 "h", "o", "l", "e", "/", "p", "h", "p">>

\* webroot_with_home as init_ph7 builds it (lines 179-184).
BuildWebrootWithHome(root, home) ==
    LET webroot_len == Len(root)
        webhome_len == Len(home)
        m0 == calloc(webroot_len + webhome_len + 1)
        m1 == strcpy(m0, 0, root)
        m2 == strcpy(m1, webroot_len, home)
    IN  Poke(m2, webroot_len + webhome_len, NUL)

\* webroot_with_home_and_scripts as lines 187-193 build it, with
\* scripts_dir_len as given and extra bytes allocated on top.
BuildScriptsPath(wwh, scripts_dir_len, extra) ==
    LET webroot_with_home_len == strlen(wwh.buf)
        m0 == calloc(webroot_with_home_len + scripts_dir_len + extra)
        m1 == strcpy(m0, 0, CStr(wwh.buf))
        m2 == strcpy(m1, webroot_with_home_len, scripts_dir)
    IN  Poke(m2, webroot_with_home_len + scripts_dir_len, NUL)

\* scripts_dir_len taken as strlen(scripts_dir) and no byte for the NUL.
BuildWebrootWithHomeAndScriptsShort(wwh) ==
    BuildScriptsPath(wwh, Len(scripts_dir), 0)

\* init_ph7: scripts_dir_len = sizeof(scripts_dir), the NUL included.
BuildWebrootWithHomeAndScripts(wwh) ==
    BuildScriptsPath(wwh, Len(scripts_dir) + 1, 1)

\* init_ph7 when ph7_init fails: log and return, nothing else is set up.
init_ph7_fail ==
    /\ phase = "boot"
    /\ phase' = "running"
    /\ UNCHANGED <<webroot, webhome, config_debug, pEngine, xErr,
                   webroot_with_home, webroot_with_home_and_scripts, engine,
                   nreq, locals>>

\* init_ph7 when ph7_init succeeds: register PH7_error_report as the
\* engine's error consumer (line 175), then build the two strings.
init_ph7 ==
    /\ phase = "boot"
    /\ phase' = "running"
    /\ pEngine' = "engine"
    /\ xErr' = "PH7_error_report"
    /\ webroot_with_home' = BuildWebrootWithHome(webroot, webhome)
    /\ webroot_with_home_and_scripts' =
           BuildWebrootWithHomeAndScripts(webroot_with_home')
    /\ UNCHANGED <<webroot, webhome, config_debug, engine, nreq, locals>>

\* free(p): free(NULL) does nothing.
Free(m) == IF m.st = "null" THEN m ELSE FreedMem

\* ph7_terminate; the host calls it once no handler is running.
ph7_terminate ==
    /\ phase = "running"
    /\ \A t \in Threads : pc[t] \in {"idle", "done"}
    /\ phase' = "terminated"
    /\ pEngine' = IF pEngine = "engine" THEN "released" ELSE pEngine
    /\ webroot_with_home' = Free(webroot_with_home)
    /\ webroot_with_home_and_scripts' = Free(webroot_with_home_and_scripts)
    /\ UNCHANGED <<webroot, webhome, config_debug, xErr, engine, nreq, locals>>

(* ------------------------------ responses ----------------------------- *)
\* "HTTP/1.1 200 OK\r\nContent-Type: text/html\r\n\r\n"
HttpHead == <<"HTTP/1.1 200 OK\r\n", "Content-Type: text/html\r\n", "\r\n">>

\* mg_printf of the compile-error page (lines 98-100), %s filled in.
CompileErrorPage(logpath) ==
    HttpHead \o <<"PHP compilation error, check ">> \o logpath
             \o <<" for further details.">>

\* One logg() line: the format and its arguments.
LogLine(fmt, arg) == [fmt |-> fmt, arg |-> arg]

\* The signal that kills the process on a read of unmapped memory.
SIGSEGV == "SIGSEGV"

\* The callback returned PH7_OK after logging line.
Reported(line) == [ret |-> PH7_OK, lines |-> <<line>>]
\* The process died in the callback before logg was called.
Crashed == [ret |-> SIGSEGV, lines |-> <<>>]

\* PH7_error_report(pOutput, nOutputLen): what a call can do.  One trailing
\* newline is stripped and the message is logged.  With nOutputLen = 0 the
\* unsigned index nOutputLen-1 wraps and pOutput[4294967295] is read: the
\* process dies with SIGSEGV when that address is not mapped; when it is,
\* the message is logged empty, or, if the byte is a newline, the length
\* wraps too and whatever follows pOutput is logged.
PH7_error_report(pOutput) ==
    LET nOutputLen == Len(pOutput)
    IN  IF nOutputLen = 0
        THEN { Crashed,
               Reported(LogLine("PH7 error: %.*s", <<>>)),
               Reported(LogLine("PH7 error: %.*s", <<GARBAGE>>)) }
        ELSE IF pOutput[nOutputLen] = "\n"
        THEN { Reported(LogLine("PH7 error: %.*s",
                                SubSeq(pOutput, 1, nOutputLen - 1))) }
        ELSE { Reported(LogLine("PH7 error: %.*s", pOutput)) }

(* ----------------------------- PH7 engine ----------------------------- *)
\* Messages the engine hands to its error consumer.
ErrReports == { <<"e", "\n">>, <<"e">>, <<>> }

\* What a failed compile may report: nothing, or one message when a
\* consumer is registered.
Reports == {<<>>} \cup (IF xErr = "none" THEN {} ELSE { <<m>> : m \in ErrReports })

\* What the consumer does with the reported messages: the lines it logs, or
\* the crash it ends in.
ReportLines(report) ==
    IF report = <<>> THEN { [ret |-> PH7_OK, lines |-> <<>>] }
    ELSE PH7_error_report(report[1])

\* A handle the engine accepts: produced by a compile and not yet released.
Valid(h) == h /= NULL /\ vm[h].st = "live"

\* What ph7_compile_file can do when called by invocation t: the code it
\* returns, the error log it leaves in the engine, the script it compiled,
\* and the value it leaves in *ppVm.  A failed compile produces no handle and
\* either leaves *ppVm alone or clears it.
CompileResults(t) ==
    IF pEngine /= "engine"
    THEN { [rc |-> PH7_CORRUPT, errlog |-> errLog, script |-> NoScript,
            ppVm |-> pVm, report |-> <<>>] }
    ELSE { [rc |-> c, errlog |-> <<>>, script |-> NoScript, ppVm |-> p,
            report |-> <<>>] :
             c \in CompileFailCodes \ {PH7_COMPILE_ERR}, p \in {pVm, NULL} }
         \cup
         { [rc |-> PH7_COMPILE_ERR, errlog |-> e, script |-> NoScript,
            ppVm |-> p, report |-> m] :
             e \in ErrLogs, p \in {pVm, NULL}, m \in Reports }
         \cup
         { [rc |-> PH7_OK, errlog |-> <<>>, script |-> s, ppVm |-> rid[t],
            report |-> <<>>] :
             s \in Scripts }

\* State of the handles after the compile result r of invocation t.
VmAfterCompile(t, r) ==
    IF r.rc = PH7_OK
    THEN [vm EXCEPT ![rid[t]] = [NoVm EXCEPT !.st = "live", !.script = r.script]]
    ELSE vm

\* Result codes ph7_vm_exec(h) can return.
ExecResults(h) ==
    IF Valid(h) THEN {vm[h].script.exec} ELSE {PH7_OK, PH7_CORRUPT}

\* Handles after ph7_vm_exec(h): the script's output lands in the capture
\* buffer of the handle.
VmAfterExec(h) ==
    IF Valid(h)
    THEN [vm EXCEPT ![h].out = @ \o vm[h].script.out, ![h].nexec = @ + 1]
    ELSE vm

\* What PH7_VM_CONFIG_EXTRACT_OUTPUT can hand back for h: its return code
\* and the captured output.  A handle that is not valid is refused, leaving
\* pOut and nLen alone, or its memory is read as it is found.
ExtractResults(h) ==
    IF Valid(h)
    THEN { [rc |-> c, out |-> vm[h].out] : c \in {PH7_OK, PH7_CORRUPT} }
    ELSE { [rc |-> PH7_CORRUPT, out |-> <<>>] }
         \cup { [rc |-> PH7_OK, out |-> o] : o \in Outputs }

\* The bytes mg_write reads through pOut: the captured output while the
\* handle still holds it; once the handle was reset, released or written
\* again the pointer dangles and the old bytes or other bytes are read.
ReadBytes(p) ==
    IF Valid(p.h) /\ vm[p.h].out = p.bytes
    THEN {p.bytes}
    ELSE {p.bytes, Fill(Len(p.bytes), GARBAGE)}

\* Handles after ph7_vm_reset(h).
VmAfterReset(h) ==
    IF Valid(h) THEN [vm EXCEPT ![h].out = <<>>, ![h].nreset = @ + 1] ELSE vm

\* Handles after ph7_vm_release(h); releasing a released handle is counted.
VmAfterRelease(h) ==
    IF h /= NULL
    THEN [vm EXCEPT ![h] = [NoVm EXCEPT !.st = "released",
                                        !.nrel = vm[h].nrel + 1]]
    ELSE vm

(* ----------------------------- ph7_handler ---------------------------- *)
\* full_path as lines 59-65 build it in a variable-length array.
BuildFullPath(root, local_uri) ==
    LET webroot_len == Len(root)
        local_uri_len == Len(Tail(local_uri))
        m0 == Mem(Fill(webroot_len + local_uri_len + 2, GARBAGE))
        m1 == strcpy(m0, 0, root)
        m2 == Poke(m1, webroot_len, "/")
        m3 == strncpy(m2, webroot_len + 1, Tail(local_uri), local_uri_len)
    IN  Poke(m3, webroot_len + local_uri_len + 1, NUL)

\* Reset and release go to the handle this invocation compiled, every other
\* call to the module-level pVm.
TheVmOwnAtEnd(t) == IF pc[t] \in {"reset", "release"} THEN rid[t] ELSE pVm

\* The handle an invocation passes to the engine: the module-level pVm.
TheVm(t) == pVm

\* One engine call on the handle: its name and its argument.
Op(name, arg) == [op |-> name, arg |-> arg]

\* The engine call name(TheVm(t), arg) as invocation t records it.
Call(t, name, arg) ==
    /\ ops' = [ops EXCEPT ![t] = Append(@, Op(name, arg))]
    /\ used' = [used EXCEPT ![t] = @ \cup {TheVm(t)}]

\* The process has not been killed.
Alive == phase /= "crashed"

\* No invocation is running on thread t.
Returned(t) == pc[t] \in {"idle", "done"}

\* Entry of ph7_handler up to the call of ph7_compile_file (lines 53-67).
\* overlap says whether the host may enter while another invocation runs;
\* uris are the request paths the host dispatches.
Enter(t, overlap, uris) ==
    /\ phase = "running"
    /\ pc[t] = "idle"
    /\ overlap \/ \A u \in Threads : Returned(u)
    /\ nreq < MaxRequests
    /\ \E uri \in uris :
         /\ full_path' = [full_path EXCEPT ![t] = BuildFullPath(webroot, uri)]
         /\ inp' = [inp EXCEPT ![t] = [NoInput EXCEPT !.uri = uri]]
         /\ lg' = [lg EXCEPT ![t] =
                IF config_debug
                THEN <<LogLine("Full path of PHP script: %s",
                               CStr(full_path'[t].buf))>>
                ELSE <<>>]
    /\ nreq' = nreq + 1
    /\ rid' = [rid EXCEPT ![t] = nreq + 1]
    /\ pc' = [pc EXCEPT ![t] = "compile"]
    /\ UNCHANGED <<shared, engine, rc, i, conn, ret, ops, pOut, used>>

EnterSeq(t) == Enter(t, FALSE, Uris)
EnterOne(t) == Enter(t, FALSE, {<<"/", "x">>})
EnterConc(t) == Enter(t, TRUE, {<<"/", "x">>})

\* Effects of ph7_compile_file common to all branches (lines 72-77).
Compiled(t, r) ==
    /\ rc' = [rc EXCEPT ![t] = r.rc]
    /\ pVm' = r.ppVm
    /\ vm' = VmAfterCompile(t, r)
    /\ errLog' = r.errlog
    /\ inp' = [inp EXCEPT ![t].crc = r.rc, ![t].script = r.script]

\* return v
Return(t, v) ==
    /\ ret' = [ret EXCEPT ![t] = v]
    /\ pc' = [pc EXCEPT ![t] = "done"]

\* rc == PH7_IO_ERR (lines 79-86), returning v.
IOErrBranch(t, v) ==
    /\ pc[t] = "compile"
    /\ \E r \in CompileResults(t) :
         /\ r.rc = PH7_IO_ERR
         /\ Compiled(t, r)
    /\ lg' = [lg EXCEPT ![t] = Append(@,
           LogLine("IO error while opening the target file (%s)",
                   CStr(full_path[t].buf)))]
    /\ Return(t, v)
    /\ UNCHANGED <<shared, nreq, i, full_path, conn, ops, rid,
                   pOut, used>>

CompileIOErrHandled(t) == IOErrBranch(t, 1)
CompileIOErr(t) == IOErrBranch(t, 0)

\* rc == PH7_VM_ERR (lines 87-93), returning v.
VMErrBranch(t, v) ==
    /\ pc[t] = "compile"
    /\ \E r \in CompileResults(t) :
         /\ r.rc = PH7_VM_ERR
         /\ Compiled(t, r)
    /\ lg' = [lg EXCEPT ![t] = Append(@, LogLine("VM initialization error", <<>>))]
    /\ Return(t, v)
    /\ UNCHANGED <<shared, nreq, i, full_path, conn, ops, rid,
                   pOut, used>>

CompileVMErrUnhandled(t) == VMErrBranch(t, 0)
CompileVMErr(t) == VMErrBranch(t, 1)

\* Any other failure code: log, write the fixed page (lines 94-100).
CompileError(t) ==
    /\ pc[t] = "compile"
    /\ \E r \in CompileResults(t) :
         /\ r.rc \notin {PH7_OK, PH7_IO_ERR, PH7_VM_ERR}
         /\ Compiled(t, r)
         /\ \E o \in ReportLines(r.report) :
              /\ o.ret = PH7_OK
              /\ lg' = [lg EXCEPT ![t] =
                     @ \o o.lines \o <<LogLine("Compile error (%d)", r.rc)>>]
    /\ conn' = [conn EXCEPT ![t] = @ \o CompileErrorPage(FTLfiles_log)]
    /\ pc' = [pc EXCEPT ![t] = "errlog"]
    /\ UNCHANGED <<shared, nreq, i, full_path, ret, ops, rid,
                   pOut, used>>

\* ph7_config(pEngine, PH7_CONFIG_ERR_LOG, ...) and the rest of the branch
\* (lines 102-112); toClient says whether the text also goes to the client.
ErrLogBranch(t, toClient) ==
    /\ pc[t] = "errlog"
    /\ LET zErrLog == errLog
           niLen == Len(errLog)
       IN  /\ lg' = [lg EXCEPT ![t] =
                  IF niLen > 0
                  THEN Append(@, LogLine("PH7 compile error: %s", zErrLog))
                  ELSE @]
           /\ inp' = [inp EXCEPT ![t].errlog = zErrLog]
           /\ conn' = [conn EXCEPT ![t] = IF toClient THEN @ \o zErrLog ELSE @]
    /\ Return(t, 1)
    /\ UNCHANGED <<shared, engine, nreq, rc, i, full_path, ops, rid,
                   pOut, used>>

ExtractErrLogToClient(t) == ErrLogBranch(t, TRUE)
ExtractErrLog(t) == ErrLogBranch(t, FALSE)

\* The error consumer dies inside ph7_compile_file (line 72 calling lines
\* 41-49): the process is killed, nothing is logged or assigned and no
\* invocation returns.
CompileCrash(t) ==
    /\ pc[t] = "compile"
    /\ \E r \in CompileResults(t) :
         \E o \in ReportLines(r.report) : o.ret = SIGSEGV
    /\ phase' = "crashed"
    /\ UNCHANGED <<webroot, webhome, config_debug, pEngine, xErr,
                   webroot_with_home, webroot_with_home_and_scripts, engine,
                   nreq, locals>>

\* rc == PH7_OK: fall through to the configuration calls.
CompileOK(t) ==
    /\ pc[t] = "compile"
    /\ \E r \in CompileResults(t) :
         /\ r.rc = PH7_OK
         /\ Compiled(t, r)
    /\ pc' = [pc EXCEPT ![t] = "http_request"]
    /\ UNCHANGED <<shared, nreq, i, full_path, conn, ret, ops, lg, rid,
                   pOut, used>>

\* A ph7_vm_config call that only configures the handle.
Configure(t, from, to, name, arg) ==
    /\ pc[t] = from
    /\ Call(t, name, arg)
    /\ pc' = [pc EXCEPT ![t] = to]
    /\ UNCHANGED <<shared, engine, nreq, rc, i, full_path, conn, ret, inp, lg, rid,
                   pOut>>

\* Line 119.
ConfigHttpRequest(t) ==
    Configure(t, "http_request", "err_report", "HTTP_REQUEST", <<>>)

\* Line 122.
ConfigErrReport(t) ==
    Configure(t, "err_report", "import_home", "ERR_REPORT", <<>>)

ConfigImportHomeWrong(t) ==
    Configure(t, "import_home", "import_scripts", "IMPORT_PATH",
              CStr(webroot_with_home_and_scripts.buf))

\* Line 125.
ConfigImportHome(t) ==
    Configure(t, "import_home", "import_scripts", "IMPORT_PATH",
              CStr(webroot_with_home.buf))

\* Line 126.
ConfigImportScripts(t) ==
    Configure(t, "import_scripts", "register", "IMPORT_PATH",
              CStr(webroot_with_home_and_scripts.buf))

\* One turn of the registration loop (lines 129-135); codes are the results
\* ph7_create_function may give; fatal says whether a failed registration
\* ends the request.
Register(t, codes, fatal) ==
    /\ Alive
    /\ pc[t] = "register"
    /\ i[t] < Len(aFunc)
    /\ \E c \in codes :
         /\ rc' = [rc EXCEPT ![t] = c]
         /\ inp' = [inp EXCEPT ![t].reg = Append(@, c = PH7_OK)]
         /\ lg' = [lg EXCEPT ![t] =
                IF c = PH7_OK THEN @
                ELSE Append(@, LogLine(
                       "Error while registering foreign function %s()",
                       aFunc[i[t] + 1]))]
         /\ IF fatal /\ c /= PH7_OK
            THEN Return(t, 1)
            ELSE UNCHANGED <<pc, ret>>
    /\ Call(t, "create_function", aFunc[i[t] + 1])
    /\ i' = [i EXCEPT ![t] = @ + 1]
    /\ UNCHANGED <<shared, engine, nreq, full_path, conn, rid, pOut>>

CreateFunctionFatal(t) == Register(t, {PH7_OK, PH7_NOMEM}, TRUE)
CreateFunction(t) == Register(t, {PH7_OK, PH7_NOMEM}, FALSE)
CreateFunctionOK(t) == Register(t, {PH7_OK}, FALSE)

\* ph7_vm_exec fails (lines 138-145).
VmExecError(t) ==
    /\ pc[t] = "register"
    /\ i[t] >= Len(aFunc)
    /\ \E r \in ExecResults(TheVm(t)) :
         /\ r /= PH7_OK
         /\ rc' = [rc EXCEPT ![t] = r]
         /\ inp' = [inp EXCEPT ![t].xrc = r]
    /\ vm' = VmAfterExec(TheVm(t))
    /\ Call(t, "exec", <<>>)
    /\ lg' = [lg EXCEPT ![t] = Append(@, LogLine("VM execution error", <<>>))]
    /\ Return(t, 1)
    /\ UNCHANGED <<shared, pVm, errLog, nreq, i, full_path, conn, rid, pOut>>

\* ph7_vm_exec succeeds (line 138).
VmExecOK(t) ==
    /\ pc[t] = "register"
    /\ i[t] >= Len(aFunc)
    /\ \E r \in ExecResults(TheVm(t)) :
         /\ r = PH7_OK
         /\ rc' = [rc EXCEPT ![t] = r]
         /\ inp' = [inp EXCEPT ![t].xrc = r]
    /\ vm' = VmAfterExec(TheVm(t))
    /\ Call(t, "exec", <<>>)
    /\ pc' = [pc EXCEPT ![t] = "extract"]
    /\ UNCHANGED <<shared, pVm, errLog, nreq, i, full_path, conn, ret, lg, rid,
                   pOut>>

OutputPresentAlways(nLen) == nLen >= 0

\* The test of line 151.
OutputPresent(nLen) == nLen > 0

\* rc = ph7_vm_config(pVm, PH7_VM_CONFIG_EXTRACT_OUTPUT, &pOut, &nLen) and
\* the test of nLen (lines 148-151).
ExtractOutput(t) ==
    /\ pc[t] = "extract"
    /\ \E r \in ExtractResults(TheVm(t)) :
         LET nLen == Len(r.out)
         IN  /\ rc' = [rc EXCEPT ![t] = r.rc]
             /\ pOut' = [pOut EXCEPT ![t] = [h |-> TheVm(t), bytes |-> r.out]]
             /\ pc' = [pc EXCEPT ![t] =
                    IF OutputPresent(nLen) THEN "send_head" ELSE "reset"]
    /\ Call(t, "extract", <<>>)
    /\ UNCHANGED <<shared, engine, nreq, i, full_path, conn, ret, inp, lg, rid>>

\* mg_printf of the response head (line 153).
SendHead(t) ==
    /\ pc[t] = "send_head"
    /\ conn' = [conn EXCEPT ![t] = @ \o HttpHead]
    /\ pc' = [pc EXCEPT ![t] = "send_body"]
    /\ UNCHANGED <<shared, engine, nreq, rc, i, full_path, ret, inp, ops, lg, rid,
                   pOut, used>>

\* mg_write(conn, pOut, nLen) (line 154): the bytes are read when written.
SendBody(t) ==
    /\ pc[t] = "send_body"
    /\ \E bytes \in ReadBytes(pOut[t]) :
         conn' = [conn EXCEPT ![t] = @ \o bytes]
    /\ pc' = [pc EXCEPT ![t] = "reset"]
    /\ UNCHANGED <<shared, engine, nreq, rc, i, full_path, ret, inp, ops, lg, rid,
                   pOut, used>>

\* Line 158.
VmReset(t) ==
    /\ pc[t] = "reset"
    /\ vm' = VmAfterReset(TheVm(t))
    /\ Call(t, "reset", <<>>)
    /\ pc' = [pc EXCEPT ![t] = "release"]
    /\ UNCHANGED <<shared, pVm, errLog, nreq, rc, i, full_path, conn, ret, inp,
                   lg, rid, pOut>>

\* Lines 159-162.
VmRelease(t) ==
    /\ pc[t] = "release"
    /\ vm' = VmAfterRelease(TheVm(t))
    /\ Call(t, "release", <<>>)
    /\ Return(t, 1)
    /\ UNCHANGED <<shared, pVm, errLog, nreq, rc, i, full_path, conn, inp, lg, rid,
                   pOut>>

\* The host takes the return value; the invocation's frame is gone.
Exit(t) ==
    /\ pc[t] = "done"
    /\ pc' = [pc EXCEPT ![t] = "idle"]
    /\ rc' = [rc EXCEPT ![t] = PH7_OK]
    /\ i' = [i EXCEPT ![t] = 0]
    /\ full_path' = [full_path EXCEPT ![t] = NullMem]
    /\ conn' = [conn EXCEPT ![t] = <<>>]
    /\ ret' = [ret EXCEPT ![t] = -1]
    /\ inp' = [inp EXCEPT ![t] = NoInput]
    /\ ops' = [ops EXCEPT ![t] = <<>>]
    /\ lg' = [lg EXCEPT ![t] = <<>>]
    /\ rid' = [rid EXCEPT ![t] = 0]
    /\ pOut' = [pOut EXCEPT ![t] = NoOut]
    /\ used' = [used EXCEPT ![t] = {}]
    /\ UNCHANGED <<shared, engine, nreq>>

\* The steps of an invocation after its entry; a killed process takes none.
Step(t) ==
    /\ Alive
    /\ \/ CompileIOErr(t) \/ CompileVMErr(t) \/ CompileError(t)
       \/ CompileCrash(t)
       \/ ExtractErrLog(t) \/ CompileOK(t)
       \/ ConfigHttpRequest(t) \/ ConfigErrReport(t)
       \/ ConfigImportHome(t) \/ ConfigImportScripts(t)
       \/ VmExecError(t) \/ VmExecOK(t)
       \/ ExtractOutput(t) \/ SendHead(t) \/ SendBody(t)
       \/ VmReset(t) \/ VmRelease(t)
       \/ Exit(t)

Lifecycle == init_ph7 \/ init_ph7_fail \/ ph7_terminate

(* ------------------------------- claims ------------------------------- *)
Done(t) == pc[t] = "done"
CompiledOK(t) == inp[t].crc = PH7_OK

IsPrefix(s, r) == Len(s) <= Len(r) /\ SubSeq(r, 1, Len(s)) = s
Contains(s, sub) ==
    \E k \in 0..(Len(s) - Len(sub)) : SubSeq(s, k + 1, k + Len(sub)) = sub
OpsNamed(t, name) == { k \in DOMAIN ops[t] : ops[t][k].op = name }
\* The invocation got PH7_OK from ph7_vm_exec.
Succeeded(t) == CompiledOK(t) /\ inp[t].xrc = PH7_OK
\* The invocation got a failure code from ph7_vm_exec.
ExecFailed(t) == CompiledOK(t) /\ inp[t].xrc \notin {"none", PH7_OK}
Logged(t, line) == \E k \in DOMAIN lg[t] : lg[t][k] = line

\* C1: a request whose compile step reports an I/O error returns 0 and writes
\* nothing to the connection, and an I/O error is the only outcome that
\* returns 0: every other finished request returns 1.
C1_IOErrorOnlyNotHandled ==
    \A t \in Threads :
        /\ (Done(t) /\ inp[t].crc = PH7_IO_ERR) =>
               ret[t] = 0 /\ conn[t] = <<>>
        /\ (Done(t) /\ inp[t].crc /= PH7_IO_ERR) => ret[t] = 1
        /\ (Done(t) /\ ret[t] = 0) => inp[t].crc = PH7_IO_ERR

C1_Witness ==
    \E t, u \in Threads :
        /\ Done(t) /\ inp[t].crc = PH7_IO_ERR /\ ret[t] = 0 /\ conn[t] = <<>>
        /\ Done(u) /\ inp[u].crc /= PH7_IO_ERR /\ ret[u] = 1

\* C2: a request whose compile fails with a code other than I/O error or
\* VM-initialization error returns 1 and writes exactly one response: the
\* 200 OK / text/html head and a body holding "PHP compilation error" and the
\* configured log path; the engine's error-log text goes to the log, only
\* when its length is > 0, and never to the response.
C2_CompileErrorPage ==
    \A t \in Threads :
        (Done(t) /\ inp[t].crc \notin {PH7_OK, PH7_IO_ERR, PH7_VM_ERR}) =>
            LET body == SubSeq(conn[t], Len(HttpHead) + 1, Len(conn[t]))
                zErrLog == inp[t].errlog
            IN  /\ ret[t] = 1
                /\ IsPrefix(HttpHead, conn[t])
                /\ HttpHead[1] = "HTTP/1.1 200 OK\r\n"
                /\ HttpHead[2] = "Content-Type: text/html\r\n"
                /\ Cardinality({k \in DOMAIN conn[t] :
                                  conn[t][k] = HttpHead[1]}) = 1
                /\ Contains(body, <<"PHP compilation error, check ">>)
                /\ Contains(body, FTLfiles_log)
                /\ Logged(t, LogLine("PH7 compile error: %s", zErrLog))
                       <=> Len(zErrLog) > 0
                /\ Len(zErrLog) > 0 => ~Contains(conn[t], zErrLog)
                /\ ops[t] = <<>>

C2_Witness ==
    \E t \in Threads :
        /\ Done(t) /\ inp[t].crc = PH7_COMPILE_ERR
        /\ Len(inp[t].errlog) > 0
        /\ Logged(t, LogLine("PH7 compile error: %s", inp[t].errlog))
        /\ ret[t] = 1

\* The same request: the same path and the same file behind it.
SameRequest(t, u) ==
    /\ inp[t].uri = inp[u].uri
    /\ inp[t].crc = inp[u].crc
    /\ inp[t].script = inp[u].script

\* C3: a request whose script compiles and executes returns 1; it writes the
\* 200 OK / text/html head followed by exactly the captured output when that
\* output is non-empty, and nothing at all when it is empty; the same request
\* repeated gives the same result.
C3_SuccessResponse ==
    \A t \in Threads :
        (Done(t) /\ Succeeded(t)) =>
            /\ ret[t] = 1
            /\ conn[t] = (IF Len(inp[t].script.out) > 0
                          THEN HttpHead \o inp[t].script.out
                          ELSE <<>>)
            /\ \A u \in Threads :
                   (Done(u) /\ Succeeded(u) /\ SameRequest(t, u)) =>
                       ret[u] = ret[t] /\ conn[u] = conn[t]

\* One finished request with no output and one that printed "Hello".
C3_Witness ==
    \E t, u \in Threads :
        /\ Done(t) /\ Succeeded(t) /\ Done(u) /\ Succeeded(u)
        /\ inp[t].script.out = <<>> /\ conn[t] = <<>> /\ ret[t] = 1
        /\ conn[u] = HttpHead \o <<"H", "e", "l", "l", "o">> /\ ret[u] = 1

\* The same request served twice, both times with no output.
C3_WitnessRepeat ==
    \E t, u \in Threads :
        /\ t /= u
        /\ Done(t) /\ Succeeded(t) /\ Done(u) /\ Succeeded(u)
        /\ SameRequest(t, u)
        /\ inp[t].script.out = <<>> /\ conn[t] = <<>> /\ conn[u] = <<>>

\* C4: a request that ends in a VM-initialization error at compile, or in an
\* execution error at ph7_vm_exec, returns 1 and writes nothing.
C4_SilentErrorsHandled ==
    \A t \in Threads :
        (Done(t) /\ (inp[t].crc = PH7_VM_ERR \/ ExecFailed(t))) =>
            ret[t] = 1 /\ conn[t] = <<>>

C4_Witness ==
    \E t, u \in Threads :
        /\ Done(t) /\ inp[t].crc = PH7_VM_ERR /\ ret[t] = 1
        /\ Done(u) /\ ExecFailed(u) /\ ret[u] = 1
        /\ inp[u].script.out /= <<>>

\* C5: every finished request that called ph7_vm_exec, whether that call
\* succeeded or failed, has reset and then released its handle.
C5_ExecThenResetRelease ==
    \A t \in Threads :
        (Done(t) /\ OpsNamed(t, "exec") /= {}) =>
            /\ OpsNamed(t, "reset") /= {}
            /\ OpsNamed(t, "release") /= {}
            /\ vm[rid[t]].st = "released"

LiveHandles == { h \in Handles : vm[h].st = "live" }

\* C6: with invocations that do not overlap, at most one compiled handle is
\* live at any time and none is live between requests.
C6_AtMostOneLiveHandle ==
    /\ Cardinality(LiveHandles) <= 1
    /\ (\A t \in Threads : Returned(t)) => LiveHandles = {}

\* Invocation t passed to the engine a handle another invocation compiled.
ForeignUse(t) == used[t] \ {NULL, rid[t]} /= {}
\* A live handle that pVm no longer points to: nothing can release it.
Lost(h) == vm[h].st = "live" /\ pVm /= h
\* The response of t carries output extracted from another invocation's handle.
ForeignOutput(t) ==
    /\ conn[t] /= <<>>
    /\ OpsNamed(t, "extract") /= {}
    /\ pOut[t].h \notin {NULL, rid[t]}

\* C7: when handler invocations overlap they race on pVm.  An invocation
\* that has passed another invocation's handle to the engine never releases
\* the handle it compiled itself (that handle is lost, or was released by
\* another invocation), and a handle has been released twice, or a handle is
\* lost and never released, or its response carries the other's output.
C7_RaceOnSharedHandle ==
    \A t \in Threads :
        (Done(t) /\ ForeignUse(t)) =>
            /\ Lost(rid[t]) \/ vm[rid[t]].st = "released"
            /\ \/ \E h \in Handles : vm[h].nrel >= 2
               \/ \E h \in Handles : Lost(h)
               \/ ForeignOutput(t)

\* One invocation sent the other's output, released the other's handle, which
\* was then released a second time, and left its own handle lost.
C7_Witness ==
    \E t \in Threads :
        /\ Done(t) /\ ForeignUse(t) /\ ForeignOutput(t)
        /\ Lost(rid[t])
        /\ \E h \in Handles : h /= rid[t] /\ vm[h].nrel >= 2

\* The arguments of the registrations invocation t attempted, in order.
Registered(t) ==
    LET regs == SelectSeq(ops[t], LAMBDA o : o.op = "create_function")
    IN  [k \in DOMAIN regs |-> regs[k].arg]

\* C8: after a successful compile every entry of the native-function table
\* is registered, in order; whichever registrations fail, the program is
\* executed exactly once, its output (if any) is sent, and the handler
\* returns 1.
C8_RegistrationFailureNonFatal ==
    \A t \in Threads :
        (Done(t) /\ CompiledOK(t)) =>
            /\ Registered(t) = aFunc
            /\ Len(inp[t].reg) = Len(aFunc)
            /\ Cardinality(OpsNamed(t, "exec")) = 1
            /\ ret[t] = 1
            /\ (inp[t].xrc = PH7_OK /\ inp[t].script.out /= <<>>) =>
                   conn[t] = HttpHead \o inp[t].script.out

C8_Witness ==
    \E t, u \in Threads :
        /\ Done(t) /\ Succeeded(t)
        /\ inp[t].reg = <<FALSE, TRUE>>
        /\ conn[t] = HttpHead \o <<"H", "e", "l", "l", "o">>
        /\ Done(u) /\ ExecFailed(u)
        /\ \A k \in DOMAIN inp[u].reg : ~inp[u].reg[k]
        /\ ret[u] = 1

\* The engine calls of a whole request, in source order.
AllOps ==
    <<Op("HTTP_REQUEST", <<>>),
      Op("ERR_REPORT", <<>>),
      Op("IMPORT_PATH", webroot \o webhome),
      Op("IMPORT_PATH", webroot \o webhome \o scripts_dir)>>
    \o [k \in 1..Len(aFunc) |-> Op("create_function", aFunc[k])]
    \o <<Op("exec", <<>>), Op("extract", <<>>),
         Op("reset", <<>>), Op("release", <<>>)>>

\* C9: within a request the handle is operated on only after a successful
\* compile of that request, in the order head injection, error reporting,
\* home import path, helper-scripts import path, the registrations, one
\* execute, output extraction (only after a successful execute), reset,
\* release; nothing follows the release and nothing happens on a
\* compile-failure branch.
C9_HandleOperationOrder ==
    \A t \in Threads :
        /\ IsPrefix(ops[t], AllOps)
        /\ used[t] \subseteq {rid[t]}
        /\ ops[t] /= <<>> => used[t] = {rid[t]}
        /\ ops[t] /= <<>> => CompiledOK(t)
        /\ OpsNamed(t, "extract") /= {} => inp[t].xrc = PH7_OK
        /\ (Done(t) /\ ExecFailed(t)) => ops[t][Len(ops[t])].op = "exec"
        /\ (ops[t] /= <<>> /\ OpsNamed(t, "release") = {}) =>
               vm[rid[t]].st = "live"
        /\ OpsNamed(t, "release") /= {} =>
               Done(t) /\ vm[rid[t]].st = "released" /\ vm[rid[t]].nrel = 1

C9_Witness ==
    \E t, u \in Threads :
        /\ Done(t) /\ ops[t] = AllOps /\ used[t] = {rid[t]}
        /\ Done(u) /\ inp[u].crc = PH7_COMPILE_ERR /\ ops[u] = <<>>

\* A buffer that holds exactly the C string str, NUL-terminated, with every
\* write inside the allocation.
HoldsString(m, str) ==
    /\ m.st = "alloc"
    /\ ~m.oob
    /\ Len(m.buf) > Len(str)
    /\ SubSeq(m.buf, 1, Len(str)) = str
    /\ m.buf[Len(str) + 1] = NUL
    /\ \A k \in 1..Len(str) : str[k] /= NUL

\* C10: from a successful init_ph7 until ph7_terminate, through every
\* handler invocation, webroot_with_home is root + home and
\* webroot_with_home_and_scripts is root + home + "/scripts/pi-hole/php",
\* both NUL-terminated and written inside their buffers; ph7_terminate
\* frees them.
C10_IncludePaths ==
    /\ (phase = "running" /\ pEngine = "engine") =>
           /\ HoldsString(webroot_with_home, webroot \o webhome)
           /\ HoldsString(webroot_with_home_and_scripts,
                          webroot \o webhome \o scripts_dir)
    /\ (phase = "terminated" /\ pEngine = "released") =>
           /\ webroot_with_home.st = "freed"
           /\ webroot_with_home_and_scripts.st = "freed"

C10_Witness ==
    /\ phase = "running" /\ pEngine = "engine"
    /\ webroot = <<"r">> /\ webhome = <<"/", "a">>
    /\ CStr(webroot_with_home_and_scripts.buf) = <<"r", "/", "a">> \o scripts_dir
    /\ \E t \in Threads : Done(t) /\ Succeeded(t) /\ OpsNamed(t, "release") /= {}

(* --------------------------- specifications --------------------------- *)
\* The host serialises the handler: invocations never overlap.
Next ==
    Lifecycle \/ \E t \in Threads : EnterSeq(t) \/ CreateFunction(t) \/ Step(t)

Spec == Init /\ [][Next]_vars

\* The host runs the handler on several threads at once.  One request path
\* and registrations that succeed are enough to interleave invocations.
NextConc ==
    Lifecycle \/ \E t \in Threads : EnterConc(t) \/ CreateFunctionOK(t) \/ Step(t)

ConcSpec == InitConc /\ [][NextConc]_vars

\* Serialised invocations under every web root and home; the include paths
\* do not depend on the request path or on the registrations.
NextPaths ==
    Lifecycle \/ \E t \in Threads : EnterOne(t) \/ CreateFunctionOK(t) \/ Step(t)

PathSpec == InitPaths /\ [][NextPaths]_vars
====
